---- MODULE Spec2Model ----
(***************************************************************************)
(* PostgreSQL initialisation of the iCP events data base.                  *)
(*                                                                         *)
(* Two variants of PostgresInitialize are modelled side by side:           *)
(*   variant "A"  src/db/psql_init.py      (table_insert, psql_address)    *)
(*   variant "B"  src/server/psql_init.py  (cmd_single_field, ...)         *)
(*                                                                         *)
(* One run of initiate_db is a sequence of steps; each step (method) is    *)
(* one action.  The file system, the object's attributes, the data base    *)
(* session and the exception that leaves initiate_db are the state.        *)
(***************************************************************************)
EXTENDS Integers, Sequences, FiniteSets, TLC

VARIABLES
    variant,        \* "A" (src/db) or "B" (src/server)
    csv_zipped,     \* self.csv_zipped
    fs,             \* file system: file name -> file
    csv_file,       \* self.csv_file
    country,        \* self.country
    location_data,  \* self.location_data
    city,           \* self.city
    state,          \* self.state
    postal_code,    \* self.postal_code
    latitude,       \* self.latitude
    longitude,      \* self.longitude
    time,           \* self.time
    db_user,        \* self.db_user
    db_pwd,         \* self.db_pwd
    conn,           \* self.conn : "None" | "open" | "closed"
    cur,            \* self.cur  : "None" | "open" | "closed"
    db,             \* the session's view of the data base: table name -> table
    commits,        \* number of conn.commit() calls issued
    pc,             \* index of the next statement of initiate_db
    log,            \* the methods that completed without raising, in order
    raised,         \* the first exception raised inside a step (its origin)
    error,          \* the exception that left initiate_db
    runs            \* populate step -> times it ran on the current tables

vars == <<variant, csv_zipped, fs, csv_file, country, location_data,
          city, state, postal_code, latitude, longitude, time, db_user,
          db_pwd, conn, cur, db, commits, pc, log, raised, error, runs>>

memVars == <<country, location_data, city, state, postal_code, latitude,
             longitude, time>>

(***************************************************************************)
(* Bounds of the model.                                                    *)
(***************************************************************************)
MaxLocations == 2      \* rows of us_postal_codes.csv
MaxCountries == 2      \* rows of countries.csv
MaxValues == 2         \* length of a list of candidate values
MaxRuns == 2           \* times a populate step is run on the same tables

(***************************************************************************)
(* Python values.                                                          *)
(***************************************************************************)
None == [none |-> TRUE, v |-> <<>>]
Some(x) == [none |-> FALSE, v |-> x]

NoError == [kind |-> "none", step |-> "none"]
Exc(kind, step) == [kind |-> kind, step |-> step]

(***************************************************************************)
(* Numbers.  A float8 ('f8', DOUBLE PRECISION) is counted in units of its  *)
(* own last place inside one binade; a float4 (REAL) keeps Float4Bits of   *)
(* the Float8Bits significand bits, so the float4 values of that binade    *)
(* are the multiples of Float4Ulp.                                         *)
(***************************************************************************)
Float8Bits == 53
Float4Bits == 24
Float4Ulp == 2 ^ (Float8Bits - Float4Bits)

\* Storing a float8 in a REAL column rounds it to the nearest float4.
Float4(x) == ((x + (Float4Ulp \div 2)) \div Float4Ulp) * Float4Ulp

(***************************************************************************)
(* Decimal text.  The text of a CSV number is the shortest decimal form of *)
(* the float it denotes (num) followed by `zeros` further zero digits:     *)
(* "34.1" and "34.10" have the same num and zeros 0 and 1.                 *)
(***************************************************************************)
Text(num, zeros) == [num |-> num, zeros |-> zeros]

\* float(text): genfromtxt with 'f8', and PostgreSQL's float8 input.
FloatOfText(t) == t.num

\* str(float): Python prints the shortest decimal form that round-trips.
StrOfFloat(x) == Text(x, 0)

(***************************************************************************)
(* CHAR(n): a shorter value is stored blank-padded to n characters and     *)
(* comes back padded; comparison of CHAR(n) values ignores the padding.    *)
(***************************************************************************)
RECURSIVE Pad(_, _)
Pad(s, n) == IF Len(s) < n THEN Pad(s \o " ", n) ELSE s

(***************************************************************************)
(* The data base.  A table is                                              *)
(*   [exists, serial, cols, unique, rows, nextid]                          *)
(* cols is the schema <<name, type>>, ..., unique the field names of the   *)
(* table's UNIQUE constraint (<<>>: none), rows the rows in insertion      *)
(* order, nextid the next value of the id SERIAL sequence.                 *)
(***************************************************************************)
NoTable == [exists |-> FALSE, serial |-> FALSE, cols |-> <<>>,
            unique |-> <<>>, rows |-> <<>>, nextid |-> 1]

\* The `tables` dictionaries of psql_tables, in source order.
Tbl(name, cols) == [name |-> name, cols |-> cols]

TablesA == << Tbl("city", << <<"value", "TEXT">> >>),
              Tbl("country", << <<"value", "CHAR2">>, <<"name", "TEXT">> >>),
              Tbl("event", << <<"value", "TEXT">> >>),
              Tbl("event_date", << <<"value", "DATE">> >>),
              Tbl("event_time", << <<"value", "TIME">> >>),
              Tbl("latitude", << <<"value", "DOUBLE">> >>),
              Tbl("longitude", << <<"value", "DOUBLE">> >>),
              Tbl("postal_code", << <<"value", "CHAR5">> >>),
              Tbl("state", << <<"value", "CHAR2">> >>),
              Tbl("url", << <<"value", "TEXT">> >>) >>

TablesB == << Tbl("city", << <<"city_name", "TEXT">> >>),
              Tbl("country", << <<"country_abbr", "CHAR2">>,
                                <<"country_name", "TEXT">> >>),
              Tbl("dates", << <<"dates_value", "DATE">> >>),
              Tbl("events", << <<"event_name", "TEXT">> >>),
              Tbl("latitude", << <<"latitude_value", "REAL">> >>),
              Tbl("longitude", << <<"longitude_value", "REAL">> >>),
              Tbl("postal_code", << <<"postal_code_value", "CHAR5">> >>),
              Tbl("state", << <<"state_name", "CHAR2">> >>),
              Tbl("times", << <<"time_value", "TIME">> >>),
              Tbl("url", << <<"url_name", "TEXT">> >>) >>

\* The `composite` lists of psql_tables: every field is an INTEGER.
CompositeA == <<"event", "city", "state", "postal_code", "country",
                "latitude", "longitude", "event_date", "event_time", "url">>
CompositeB == <<"event", "city", "state", "postal_code", "country",
                "latitude", "longitude", "dates", "times", "url">>

AddressFields == {"city", "state", "postal_code", "latitude", "longitude"}

Integers(names) == [i \in 1..Len(names) |-> <<names[i], "INTEGER">>]

TableNames == {TablesA[i].name : i \in 1..Len(TablesA)}
              \cup {TablesB[i].name : i \in 1..Len(TablesB)}
              \cup {"address", "events", "event"}

CharLen(type) == IF type = "CHAR2" THEN 2 ELSE 5
IsChar(type) == type \in {"CHAR2", "CHAR5"}

(***************************************************************************)
(* SQL statements, as cur.execute runs them.  A statement is a record with *)
(* op in "drop", "create", "insert", "insert_single", "insert_double";     *)
(* Exec gives the data base after it and the error it raises ("none": no   *)
(* error).                                                                 *)
(***************************************************************************)
\* DROP TABLE if EXISTS name CASCADE
DropStmt(name) == [op |-> "drop", table |-> name]

\* table_create / cmd_create_serial_table
CreateStmt(name, schema, serial, unique) ==
    [op |-> "create", table |-> name, cols |-> schema, serial |-> serial,
     unique |-> unique]

\* table_insert: INSERT INTO name (fields) VALUES (%s, ...)
InsertStmt(name, fields, values) ==
    [op |-> "insert", table |-> name, fields |-> fields, values |-> values]

\* cmd_single_field: INSERT INTO name (field) SELECT %s WHERE NOT EXISTS ...
SingleStmt(name, field, x) ==
    [op |-> "insert_single", table |-> name, fields |-> <<field>>,
     values |-> <<x>>]

\* cmd_double_field: INSERT INTO name (field_1, field_2) SELECT %s, %s
\* WHERE NOT EXISTS ...
DoubleStmt(name, field_1, field_2, x, y) ==
    [op |-> "insert_double", table |-> name, fields |-> <<field_1, field_2>>,
     values |-> <<x, y>>]

TypeOf(t, col) ==
    LET i == CHOOSE k \in 1..Len(t.cols) : t.cols[k][1] = col
    IN t.cols[i][2]

\* Whether the column accepts the parameter.
Accepts(type, x) ==
    CASE IsChar(type) -> Len(x) <= CharLen(type)
      [] type = "INTEGER" -> x.digits
      [] OTHER -> TRUE

\* The value a column of this type stores for the parameter.
Coerce(type, x) ==
    CASE IsChar(type) -> Pad(x, CharLen(type))
      [] type = "DOUBLE" -> FloatOfText(x)
      [] type = "REAL" -> Float4(x)
      [] type = "INTEGER" -> x.n
      [] OTHER -> x

\* WHERE field = %s: the stored value that equals the parameter.  A
\* CHAR(n) compares without its padding; a REAL is widened to float8 and
\* compared with the parameter, a float8 literal, as it is.
Sought(type, x) == IF IsChar(type) THEN Pad(x, CharLen(type)) ELSE x

NewRow(t, s) ==
    LET given == {s.fields[i] : i \in 1..Len(s.fields)}
        idx(c) == CHOOSE i \in 1..Len(s.fields) : s.fields[i] = c
    IN [c \in given \cup (IF t.serial THEN {"id"} ELSE {}) |->
            IF c \in given THEN Coerce(TypeOf(t, c), s.values[idx(c)])
                           ELSE t.nextid]

ViolatesUnique(t, row) ==
    LET Same(old) == \A i \in 1..Len(t.unique) :
                        old[t.unique[i]] = row[t.unique[i]]
    IN t.unique # <<>> /\ SelectSeq(t.rows, Same) # <<>>

\* cmd_single_field: WHERE NOT EXISTS (SELECT field FROM name WHERE
\* field = %s)
ExistsSingle(t, s) ==
    LET field == s.fields[1]
        x == Sought(TypeOf(t, field), s.values[1])
        IsIt(row) == row[field] = x
    IN SelectSeq(t.rows, IsIt) # <<>>

\* cmd_double_field: WHERE NOT EXISTS (SELECT field_1 FROM name WHERE
\* field_1 = %s AND field_2 = %s)
ExistsDouble(t, s) ==
    LET field_1 == s.fields[1]
        field_2 == s.fields[2]
        x == Sought(TypeOf(t, field_1), s.values[1])
        y == Sought(TypeOf(t, field_2), s.values[2])
        IsIt(row) == row[field_1] = x /\ row[field_2] = y
    IN SelectSeq(t.rows, IsIt) # <<>>

AlreadyThere(t, s) ==
    IF s.op = "insert_single" THEN ExistsSingle(t, s)
    ELSE s.op = "insert_double" /\ ExistsDouble(t, s)

Appended(d, s, row) ==
    [d EXCEPT ![s.table].rows = Append(@, row),
              ![s.table].nextid = IF d[s.table].serial THEN @ + 1 ELSE @]

Result(d, err) == [db |-> d, err |-> err]

Exec(d, s) ==
    LET t == d[s.table] IN
    CASE s.op = "drop" -> Result([d EXCEPT ![s.table] = NoTable], "none")
      [] s.op = "create" ->
            IF t.exists THEN Result(d, "ProgrammingError")
            ELSE Result([d EXCEPT ![s.table] =
                            [exists |-> TRUE, serial |-> s.serial,
                             cols |-> s.cols, unique |-> s.unique,
                             rows |-> <<>>, nextid |-> 1]], "none")
      [] s.op \in {"insert", "insert_single", "insert_double"} ->
            IF ~t.exists THEN Result(d, "ProgrammingError")
            ELSE IF \E i \in 1..Len(s.fields) :
                        ~Accepts(TypeOf(t, s.fields[i]), s.values[i])
            THEN Result(d, "DataError")
            ELSE IF AlreadyThere(t, s)
            THEN Result(d, "none")
            ELSE IF ViolatesUnique(t, NewRow(t, s))
            THEN Result(d, "IntegrityError")
            ELSE Result(Appended(d, s, NewRow(t, s)), "none")

\* A list comprehension of cur.execute calls: the statements run in order
\* and the first error ends the run.  ExecRange runs stmts[lo..hi], first
\* half then second half.
RECURSIVE ExecRange(_, _, _, _)
ExecRange(d, stmts, lo, hi) ==
    IF lo > hi THEN Result(d, "none")
    ELSE IF lo = hi THEN Exec(d, stmts[lo])
    ELSE LET mid == (lo + hi) \div 2
             r == ExecRange(d, stmts, lo, mid)
         IN IF r.err # "none" THEN r ELSE ExecRange(r.db, stmts, mid + 1, hi)

ExecAll(d, stmts) == ExecRange(d, stmts, 1, Len(stmts))

(***************************************************************************)
(* Source data.  A line of us_postal_codes.csv keeps the five columns the  *)
(* program uses; latitude and longitude are decimal text.  The sample      *)
(* lines: two ordinary places, and the second place again with its         *)
(* latitude written with a trailing zero.  The first latitude is a float4, *)
(* the second is not.                                                      *)
(***************************************************************************)
Line(p, c, s, lat, lon) ==
    [postal_code |-> p, city |-> c, state |-> s, latitude |-> lat,
     longitude |-> lon]

LocationLines ==
    { Line("90210", "Beverly Hills", "CA", Text(Float4Ulp, 0),
           Text(2 * Float4Ulp, 0)),
      Line("10001", "New York", "NY", Text(Float4Ulp + 1, 0),
           Text(3 * Float4Ulp, 0)),
      Line("10001", "New York", "NY", Text(Float4Ulp, 1),
           Text(3 * Float4Ulp, 0)) }

CountryLines == { [abbr |-> "CA", name |-> "Canada"],
                  [abbr |-> "US", name |-> "United States"] }

SeqsUpTo(S, n) == UNION {[1..k -> S] : k \in 0..n}

\* The values of the sample data in sorted order (strings by code point,
\* floats by value), which is the order np.unique returns them in.
StringOrder == <<"10001", "90210", "Beverly Hills", "CA", "NY", "New York">>
TextOrder == <<Text(Float4Ulp, 0), Text(Float4Ulp, 1),
               Text(Float4Ulp + 1, 0), Text(2 * Float4Ulp, 0),
               Text(3 * Float4Ulp, 0)>>
FloatOrder == <<Float4Ulp, Float4Ulp + 1, 2 * Float4Ulp, 3 * Float4Ulp>>

Range(q) == {q[i] : i \in 1..Len(q)}

\* np.unique: the distinct values, sorted.
Unique(q, order) ==
    LET Present(x) == x \in Range(q)
    IN SelectSeq(order, Present)

Column(rows, f) == [i \in 1..Len(rows) |-> rows[i][f]]

(***************************************************************************)
(* Files.  A file is [exists, wellformed, crlf, rows]: wellformed says     *)
(* every line has the columns genfromtxt is told to use, crlf that lines   *)
(* end in "\r\n", as the lines of the source files do.                     *)
(***************************************************************************)
NoFile == [exists |-> FALSE, wellformed |-> FALSE, crlf |-> FALSE,
           rows |-> <<>>]
File(ok, crlf, rows) ==
    [exists |-> TRUE, wellformed |-> ok, crlf |-> crlf, rows |-> rows]

CountriesCsv == "countries.csv"
LocationsCsv == "us_postal_codes.csv"
Gz(name) == name \o ".gz"
FileNames == {CountriesCsv, Gz(CountriesCsv), LocationsCsv, Gz(LocationsCsv)}

\* The file the run reads name from: name.gz when csv_zipped, else name.
Input(name, zipped) == IF zipped THEN Gz(name) ELSE name

\* unzip: decode name.gz, drop every "\r", write the text to name.
unzip(f, name, zipped) ==
    IF ~zipped THEN [fs |-> f, err |-> "none"]
    ELSE IF ~f[Gz(name)].exists THEN [fs |-> f, err |-> "FileNotFoundError"]
    ELSE [fs |-> [f EXCEPT ![name] = [f[Gz(name)] EXCEPT !.crlf = FALSE]],
          err |-> "none"]

\* np.genfromtxt(name, ...): the rows, or the error it raises.
genfromtxt(f, name) ==
    IF ~f[name].exists THEN [rows |-> <<>>, err |-> "OSError"]
    ELSE IF ~f[name].wellformed THEN [rows |-> <<>>, err |-> "ValueError"]
    ELSE [rows |-> f[name].rows, err |-> "none"]

\* zip_file (variant A): gzip name into name.gz unless csv_zipped, then
\* remove name.
zip_file(f, name, zipped) ==
    LET g == IF zipped THEN f ELSE [f EXCEPT ![Gz(name)] = f[name]]
    IN [g EXCEPT ![name] = NoFile]

\* What a load method does to the files and what it reads: unzip,
\* genfromtxt and, in variant A only, zip_file.
Load(f, name, zipped, v) ==
    LET u == unzip(f, name, zipped)
        g == genfromtxt(u.fs, name)
    IN IF u.err # "none" THEN [fs |-> u.fs, rows |-> <<>>, err |-> u.err]
       ELSE IF g.err # "none" THEN [fs |-> u.fs, rows |-> <<>>, err |-> g.err]
       ELSE [fs |-> IF v = "A" THEN zip_file(u.fs, name, zipped) ELSE u.fs,
             rows |-> g.rows, err |-> "none"]

\* The dtype of load_locations: variant A keeps latitude and longitude as
\* text ('U9'), variant B reads them as floats ('f8').
Typed(row, v) ==
    IF v = "A" THEN row
    ELSE [row EXCEPT !.latitude = FloatOfText(@),
                     !.longitude = FloatOfText(@)]

(***************************************************************************)
(* load_times: day + delta * x for x in range(NumTimes), then .time().     *)
(* A time of day is counted in minutes since midnight.                     *)
(***************************************************************************)
NumTimes == 288
StepMinutes == 5
TimeOfDay(minutes) == minutes % (24 * 60)
TimesFromOne == [i \in 1..NumTimes |-> TimeOfDay(StepMinutes * i)]
Times == [i \in 1..NumTimes |-> TimeOfDay(StepMinutes * (i - 1))]

(***************************************************************************)
(* The status decorator: try: func() finally: print(...).  An exception of *)
(* the wrapped method leaves the wrapper unchanged.                        *)
(***************************************************************************)
statusSwallows(kind) == "none"
status(kind) == kind

(***************************************************************************)
(* initiate_db: the methods it calls, in order.                            *)
(***************************************************************************)
ConnectsFirst(v) ==
    <<"get_user", "get_password", "psql_connection", "psql_tables",
      "load_countries", "load_locations", "load_times", "psql_city",
      "psql_country",
      "psql_latitude", "psql_longitude", "psql_postal_code", "psql_state",
      "psql_times">>
    \o (IF v = "A" THEN <<"psql_address">> ELSE <<>>) \o <<"commit">>
AddressBeforeLookups(v) ==
    <<"load_countries", "load_locations", "load_times", "get_user",
      "get_password", "psql_connection", "psql_tables">>
    \o (IF v = "A" THEN <<"psql_address">> ELSE <<>>)
    \o <<"psql_city", "psql_country", "psql_latitude", "psql_longitude",
         "psql_postal_code", "psql_state", "psql_times", "commit">>
InitiateDb(v) ==
    <<"load_countries", "load_locations", "load_times", "get_user",
      "get_password", "psql_connection", "psql_tables", "psql_city",
      "psql_country", "psql_latitude", "psql_longitude", "psql_postal_code",
      "psql_state", "psql_times">>
    \o (IF v = "A" THEN <<"psql_address">> ELSE <<>>) \o <<"commit">>

Running == error = NoError /\ pc \in 1..Len(InitiateDb(variant))
Step == IF Running THEN InitiateDb(variant)[pc] ELSE "none"
Done == error = NoError /\ pc = Len(InitiateDb(variant)) + 1
Failed == error # NoError
Terminal == Done \/ Failed

\* The end of a step of initiate_db: kind is what the method raised
\* ("none": nothing); a decorated method is called through status.
Return(step, kind, decorated) ==
    LET seen == IF decorated THEN status(kind) ELSE kind IN
    /\ raised' = IF kind # "none" /\ raised = NoError THEN Exc(kind, step)
                 ELSE raised
    /\ error' = IF seen # "none" THEN Exc(seen, step) ELSE error
    /\ pc' = IF seen = "none" THEN pc + 1 ELSE pc
    /\ log' = IF kind = "none" THEN Append(log, step) ELSE log

(***************************************************************************)
(* The steps of initiate_db that do not touch the data base.               *)
(***************************************************************************)
load_countries ==
    /\ Step = "load_countries"
    /\ LET r == Load(fs, CountriesCsv, csv_zipped, variant) IN
         /\ csv_file' = CountriesCsv
         /\ fs' = r.fs
         /\ country' = IF r.err = "none" THEN Some(r.rows) ELSE country
         /\ Return("load_countries", r.err, TRUE)
    /\ UNCHANGED <<variant, csv_zipped, location_data, city, state,
                   postal_code, latitude, longitude, time, db_user, db_pwd,
                   conn, cur, db, commits, runs>>

load_locations ==
    /\ Step = "load_locations"
    /\ LET r == Load(fs, LocationsCsv, csv_zipped, variant)
           loc == [i \in 1..Len(r.rows) |-> Typed(r.rows[i], variant)]
           numbers == IF variant = "A" THEN TextOrder ELSE FloatOrder
           ok == r.err = "none"
       IN
         /\ csv_file' = LocationsCsv
         /\ fs' = r.fs
         /\ location_data' = IF ok THEN Some(loc) ELSE location_data
         /\ city' = IF ok THEN Some(Unique(Column(loc, "city"), StringOrder))
                    ELSE city
         /\ state' = IF ok
                     THEN Some(Unique(Column(loc, "state"), StringOrder))
                     ELSE state
         /\ postal_code' =
               IF ok THEN Some(Unique(Column(loc, "postal_code"), StringOrder))
               ELSE postal_code
         /\ latitude' = IF ok
                        THEN Some(Unique(Column(loc, "latitude"), numbers))
                        ELSE latitude
         /\ longitude' = IF ok
                         THEN Some(Unique(Column(loc, "longitude"), numbers))
                         ELSE longitude
         /\ Return("load_locations", r.err, TRUE)
    /\ UNCHANGED <<variant, csv_zipped, country, time, db_user, db_pwd,
                   conn, cur, db, commits, runs>>

load_times ==
    /\ Step = "load_times"
    /\ time' = Some(Times)
    /\ Return("load_times", "none", TRUE)
    /\ UNCHANGED <<variant, csv_zipped, fs, csv_file, country,
                   location_data, city, state, postal_code, latitude,
                   longitude, db_user, db_pwd, conn, cur, db, commits, runs>>

\* input('Enter database user name: '), 'Tim' when nothing is typed.
get_user ==
    /\ Step = "get_user"
    /\ \E typed \in {"", "Tim"} :
          db_user' = IF typed = "" THEN "Tim" ELSE typed
    /\ Return("get_user", "none", FALSE)
    /\ UNCHANGED <<variant, csv_zipped, fs, csv_file, memVars, db_pwd,
                   conn, cur, db, commits, runs>>

get_password ==
    /\ Step = "get_password"
    /\ \E typed \in {"secret", "wrong"} : db_pwd' = typed
    /\ Return("get_password", "none", FALSE)
    /\ UNCHANGED <<variant, csv_zipped, fs, csv_file, memVars, db_user,
                   conn, cur, db, commits, runs>>

(***************************************************************************)
(* The steps that talk to the data base.  `alive` says whether the server  *)
(* answers during the step; when it does not, the step's first call raises *)
(* OperationalError.  The server accepts the user "Tim" with the password  *)
(* "secret".                                                               *)
(***************************************************************************)
psql_connection ==
    /\ Step = "psql_connection"
    /\ \E alive \in BOOLEAN :
          LET ok == alive /\ db_user = "Tim" /\ db_pwd = "secret" IN
          /\ conn' = IF ok THEN "open" ELSE conn
          /\ cur' = IF ok THEN "open" ELSE cur
          /\ Return("psql_connection",
                    IF ok THEN "none" ELSE "OperationalError", FALSE)
    /\ UNCHANGED <<variant, csv_zipped, fs, csv_file, memVars, db_user,
                   db_pwd, db, commits, runs>>

\* self.cur.execute(...) for each statement in turn.
Execute(d, c, stmts, alive) ==
    IF c # "open" THEN Result(d, "AttributeError")
    ELSE IF ~alive THEN Result(d, "OperationalError")
    ELSE ExecAll(d, stmts)

NoDrops(tables) == <<>>
Drops(tables) == [i \in 1..Len(tables) |-> DropStmt(tables[i].name)]
Creates(tables) ==
    [i \in 1..Len(tables) |->
        CreateStmt(tables[i].name, tables[i].cols, TRUE, <<>>)]
InAddress(f) == f \in AddressFields

\* The statements of psql_tables.
TableStmts(v) ==
    IF v = "A"
    THEN Drops(TablesA) \o Creates(TablesA)
         \o <<DropStmt("address"), DropStmt("events"),
              CreateStmt("address", Integers(SelectSeq(CompositeA, InAddress)),
                         FALSE, <<"city", "state", "postal_code">>),
              CreateStmt("events", Integers(CompositeA), FALSE,
                         <<"event", "city", "postal_code", "event_date">>)>>
    ELSE Drops(TablesB) \o Creates(TablesB)
         \o <<DropStmt("event"),
              CreateStmt("event", Integers(CompositeB), FALSE, <<>>)>>

psql_tables ==
    /\ Step = "psql_tables"
    /\ \E alive \in BOOLEAN :
          LET r == Execute(db, cur, TableStmts(variant), alive) IN
          /\ db' = r.db
          /\ Return("psql_tables", r.err, TRUE)
    /\ UNCHANGED <<variant, csv_zipped, fs, csv_file, memVars, db_user,
                   db_pwd, conn, cur, commits, runs>>

PopulateSteps == {"psql_city", "psql_country", "psql_latitude",
                  "psql_longitude", "psql_postal_code", "psql_state",
                  "psql_times"}

\* The attribute a populate method iterates over.
Attr(step) ==
    CASE step = "psql_city" -> city
      [] step = "psql_country" -> country
      [] step = "psql_latitude" -> latitude
      [] step = "psql_longitude" -> longitude
      [] step = "psql_postal_code" -> postal_code
      [] step = "psql_state" -> state
      [] step = "psql_times" -> time

\* The table and fields a populate method writes.
Target(v, step) ==
    CASE step = "psql_city" ->
            [table |-> "city",
             fields |-> IF v = "A" THEN <<"value">> ELSE <<"city_name">>]
      [] step = "psql_country" ->
            [table |-> "country",
             fields |-> IF v = "A" THEN <<"value", "name">>
                        ELSE <<"country_abbr", "country_name">>]
      [] step = "psql_latitude" ->
            [table |-> "latitude",
             fields |-> IF v = "A" THEN <<"value">> ELSE <<"latitude_value">>]
      [] step = "psql_longitude" ->
            [table |-> "longitude",
             fields |-> IF v = "A" THEN <<"value">>
                        ELSE <<"longitude_value">>]
      [] step = "psql_postal_code" ->
            [table |-> "postal_code",
             fields |-> IF v = "A" THEN <<"value">>
                        ELSE <<"postal_code_value">>]
      [] step = "psql_state" ->
            [table |-> "state",
             fields |-> IF v = "A" THEN <<"value">> ELSE <<"state_name">>]
      [] step = "psql_times" ->
            [table |-> IF v = "A" THEN "event_time" ELSE "times",
             fields |-> IF v = "A" THEN <<"value">> ELSE <<"time_value">>]

\* The parameters of one insert: (x, ) or, for a country, (abbr, name).
Params(step, x) ==
    IF step = "psql_country" THEN <<x.abbr, x.name>> ELSE <<x>>

\* The statements of a populate method: variant A inserts with
\* table_insert, variant B with cmd_single_field / cmd_double_field.
PopulateStmts(v, step, values) ==
    [i \in 1..Len(values) |->
        IF v = "A"
        THEN InsertStmt(Target(v, step).table, Target(v, step).fields,
                        Params(step, values[i]))
        ELSE IF step = "psql_country"
        THEN DoubleStmt(Target(v, step).table, Target(v, step).fields[1],
                        Target(v, step).fields[2], values[i].abbr,
                        values[i].name)
        ELSE SingleStmt(Target(v, step).table, Target(v, step).fields[1],
                        values[i])]

\* np.genfromtxt returns a 0-d array for a file of one line; a for loop
\* over it raises TypeError (np.unique always returns a 1-d array).
ZeroDim(rows) == Len(rows) = 1

Populate(d, c, v, step, a, alive) ==
    IF a.none THEN Result(d, "TypeError")
    ELSE IF step = "psql_country" /\ ZeroDim(a.v)
    THEN Result(d, "TypeError")
    ELSE Execute(d, c, PopulateStmts(v, step, a.v), alive)

PopulateStep(step) ==
    /\ Step = step
    /\ \E alive \in BOOLEAN :
          LET r == Populate(db, cur, variant, step, Attr(step), alive) IN
          /\ db' = r.db
          /\ Return(step, r.err, TRUE)
    /\ UNCHANGED <<variant, csv_zipped, fs, csv_file, memVars, db_user,
                   db_pwd, conn, cur, commits, runs>>

psql_city == PopulateStep("psql_city")
psql_country == PopulateStep("psql_country")
psql_latitude == PopulateStep("psql_latitude")
psql_longitude == PopulateStep("psql_longitude")
psql_postal_code == PopulateStep("psql_postal_code")
psql_state == PopulateStep("psql_state")
psql_times == PopulateStep("psql_times")

(***************************************************************************)
(* psql_address (variant A).  addresses is np.recarray(shape, 'U6' fields) *)
(* and is not initialised: a cell that idx_sub never assigns holds         *)
(* whatever the memory held, text that is not a number or stale digits.    *)
(***************************************************************************)
AddressOrder == <<"postal_code", "city", "state", "latitude", "longitude">>

Cell(n) == [digits |-> TRUE, n |-> n]
Uninitialised == {[digits |-> FALSE, n |-> 0], Cell(9)}

Max(S) == CHOOSE m \in S : \A y \in S : y <= m

\* str(values[1]) of a row that table_select fetched: a DOUBLE PRECISION
\* comes back as a float, a CHAR(n) or TEXT as the stored string.
StrOfValue(type, x) == IF type = "DOUBLE" THEN StrOfFloat(x) ELSE x

\* idx_sub, for one record: every row of table `name` whose value prints
\* as the record's field x assigns its id, the last such row last.
idx_sub(d, name, x, junk) ==
    LET t == d[name]
        hits == {k \in 1..Len(t.rows) :
                    StrOfValue(TypeOf(t, "value"), t.rows[k]["value"]) = x}
    IN IF hits = {} THEN junk ELSE Cell(t.rows[Max(hits)]["id"])

Addresses(d, loc, junk) ==
    [i \in 1..Len(loc) |->
        [k \in 1..Len(AddressOrder) |->
            idx_sub(d, AddressOrder[k], loc[i][AddressOrder[k]], junk)]]

AddressStmts(d, loc, junk) ==
    [i \in 1..Len(loc) |->
        InsertStmt("address", AddressOrder, Addresses(d, loc, junk)[i])]

PsqlAddress(d, c, loc, junk, alive) ==
    IF c # "open" THEN Result(d, "AttributeError")
    ELSE IF ~alive THEN Result(d, "OperationalError")
    ELSE IF \E f \in AddressFields : ~d[f].exists
    THEN Result(d, "ProgrammingError")
    ELSE IF loc.none THEN Result(d, "AttributeError")
    ELSE IF ZeroDim(loc.v) THEN Result(d, "TypeError")
    ELSE ExecAll(d, AddressStmts(d, loc.v, junk))

psql_address ==
    /\ Step = "psql_address"
    /\ \E alive \in BOOLEAN, junk \in Uninitialised :
          LET r == PsqlAddress(db, cur, location_data, junk, alive) IN
          /\ db' = r.db
          /\ Return("psql_address", r.err, TRUE)
    /\ UNCHANGED <<variant, csv_zipped, fs, csv_file, memVars, db_user,
                   db_pwd, conn, cur, commits, runs>>

\* self.conn.commit()
commit ==
    /\ Step = "commit"
    /\ \E alive \in BOOLEAN :
          LET kind == IF conn # "open" THEN "AttributeError"
                      ELSE IF ~alive THEN "OperationalError" ELSE "none" IN
          /\ commits' = IF kind = "none" THEN commits + 1 ELSE commits
          /\ Return("commit", kind, FALSE)
    /\ UNCHANGED <<variant, csv_zipped, fs, csv_file, memVars, db_user,
                   db_pwd, conn, cur, db, runs>>

(***************************************************************************)
(* A run of initiate_db.  The input files are missing, malformed or hold   *)
(* up to MaxCountries / MaxLocations sample lines, repeats included; the   *)
(* data base is empty or holds the tables and rows of an earlier run.      *)
(***************************************************************************)
EmptyDb == [t \in TableNames |-> NoTable]

Earlier(v) ==
    ExecAll(EmptyDb,
            TableStmts(v)
            \o PopulateStmts(v, "psql_city", <<"Old Town">>)).db

SourceFiles(lines, n) ==
    {NoFile, File(FALSE, FALSE, <<>>)}
    \cup {File(TRUE, TRUE, rows) : rows \in SeqsUpTo(lines, n)}

Init ==
    /\ variant \in {"A", "B"}
    /\ csv_zipped \in BOOLEAN
    /\ \E c \in SourceFiles(CountryLines, MaxCountries),
          l \in SourceFiles(LocationLines, MaxLocations) :
          fs = [n \in FileNames |->
                  IF n = Input(CountriesCsv, csv_zipped) THEN c
                  ELSE IF n = Input(LocationsCsv, csv_zipped) THEN l
                  ELSE NoFile]
    /\ csv_file = "None"
    /\ country = None
    /\ location_data = None
    /\ city = None
    /\ state = None
    /\ postal_code = None
    /\ latitude = None
    /\ longitude = None
    /\ time = None
    /\ db_user = "None"
    /\ db_pwd = "None"
    /\ conn = "None"
    /\ cur = "None"
    /\ db \in {EmptyDb, Earlier(variant)}
    /\ commits = 0
    /\ pc = 1
    /\ log = <<>>
    /\ raised = NoError
    /\ error = NoError
    /\ runs = 0

Next ==
    \/ load_countries
    \/ load_locations
    \/ load_times
    \/ get_user
    \/ get_password
    \/ psql_connection
    \/ psql_tables
    \/ psql_city
    \/ psql_country
    \/ psql_latitude
    \/ psql_longitude
    \/ psql_postal_code
    \/ psql_state
    \/ psql_times
    \/ psql_address
    \/ commit

Spec == Init /\ [][Next]_vars

(***************************************************************************)
(* A populate method run again and again on the tables psql_tables has     *)
(* just created, for any list of up to MaxValues candidate values, repeats *)
(* included.  The attribute the method reads holds the list, the others    *)
(* are None; the server answers.                                           *)
(***************************************************************************)
FreshDb(v) == ExecAll(EmptyDb, TableStmts(v)).db

FieldOf(step) ==
    CASE step = "psql_city" -> "city"
      [] step = "psql_latitude" -> "latitude"
      [] step = "psql_longitude" -> "longitude"
      [] step = "psql_postal_code" -> "postal_code"
      [] step = "psql_state" -> "state"

Candidates(v, step) ==
    CASE step = "psql_country" -> SeqsUpTo(CountryLines, MaxValues)
      [] step = "psql_times" -> {Times}
      [] OTHER -> SeqsUpTo({Typed(l, v)[FieldOf(step)] : l \in LocationLines},
                           MaxValues)

Given(step, target, list) == IF step = target THEN Some(list) ELSE None

InitPopulate ==
    /\ variant \in {"A", "B"}
    /\ csv_zipped = TRUE
    /\ fs = [n \in FileNames |-> NoFile]
    /\ csv_file = "None"
    /\ \E target \in PopulateSteps :
          \E list \in Candidates(variant, target) :
             /\ city = Given("psql_city", target, list)
             /\ country = Given("psql_country", target, list)
             /\ latitude = Given("psql_latitude", target, list)
             /\ longitude = Given("psql_longitude", target, list)
             /\ postal_code = Given("psql_postal_code", target, list)
             /\ state = Given("psql_state", target, list)
             /\ time = Given("psql_times", target, list)
    /\ location_data = None
    /\ db_user = "Tim"
    /\ db_pwd = "secret"
    /\ conn = "open"
    /\ cur = "open"
    /\ db = FreshDb(variant)
    /\ commits = 0
    /\ pc = 0
    /\ log = <<>>
    /\ raised = NoError
    /\ error = NoError
    /\ runs = 0

\* One more call of the populate method, through its status decorator.
Repopulate(step) ==
    /\ pc = 0
    /\ error = NoError
    /\ runs < MaxRuns
    /\ ~Attr(step).none
    /\ LET r == Populate(db, cur, variant, step, Attr(step), TRUE) IN
         /\ db' = r.db
         /\ raised' = IF r.err # "none" /\ raised = NoError
                      THEN Exc(r.err, step) ELSE raised
         /\ error' = IF status(r.err) # "none" THEN Exc(status(r.err), step)
                     ELSE error
         /\ log' = IF r.err = "none" THEN Append(log, step) ELSE log
    /\ runs' = runs + 1
    /\ UNCHANGED <<variant, csv_zipped, fs, csv_file, memVars, db_user,
                   db_pwd, conn, cur, commits, pc>>

NextPopulate == \E step \in PopulateSteps : Repopulate(step)

SpecPopulate == InitPopulate /\ [][NextPopulate]_vars

(***************************************************************************)
(* psql_tables on the data base an earlier session left: any subset of    *)
(* the tables the variant declares exists, with the rows of PriorFull.    *)
(***************************************************************************)
Lookups(v) ==
    IF v = "A" THEN {TablesA[i].name : i \in 1..Len(TablesA)}
    ELSE {TablesB[i].name : i \in 1..Len(TablesB)}
Composites(v) == IF v = "A" THEN {"address", "events"} ELSE {"event"}
Declared(v) == Lookups(v) \cup Composites(v)

PriorFull(v) ==
    ExecAll(Earlier(v),
            PopulateStmts(v, "psql_country",
                          <<[abbr |-> "US", name |-> "United States"]>>)
            \o PopulateStmts(v, "psql_state", <<"CA", "CA">>)).db

Prior(full, S) == [t \in TableNames |-> IF t \in S THEN full[t] ELSE NoTable]

InitTables ==
    /\ variant \in {"A", "B"}
    /\ csv_zipped = TRUE
    /\ fs = [n \in FileNames |-> NoFile]
    /\ csv_file = "None"
    /\ country = None
    /\ location_data = None
    /\ city = None
    /\ state = None
    /\ postal_code = None
    /\ latitude = None
    /\ longitude = None
    /\ time = None
    /\ db_user = "Tim"
    /\ db_pwd = "secret"
    /\ conn = "open"
    /\ cur = "open"
    /\ LET full == PriorFull(variant) IN
       \E S \in SUBSET Declared(variant) : db = Prior(full, S)
    /\ commits = 0
    /\ pc = 0
    /\ log = <<>>
    /\ raised = NoError
    /\ error = NoError
    /\ runs = 0

\* One call of psql_tables, through its status decorator.
RebuildTables ==
    /\ pc = 0
    /\ error = NoError
    /\ runs < MaxRuns
    /\ \E alive \in BOOLEAN :
          LET r == Execute(db, cur, TableStmts(variant), alive) IN
          /\ db' = r.db
          /\ raised' = IF r.err # "none" /\ raised = NoError
                       THEN Exc(r.err, "psql_tables") ELSE raised
          /\ error' = IF status(r.err) # "none"
                      THEN Exc(status(r.err), "psql_tables") ELSE error
          /\ log' = IF r.err = "none" THEN Append(log, "psql_tables")
                    ELSE log
    /\ runs' = runs + 1
    /\ UNCHANGED <<variant, csv_zipped, fs, csv_file, memVars, db_user,
                   db_pwd, conn, cur, commits, pc>>

NextTables == RebuildTables

SpecTables == InitTables /\ [][NextTables]_vars

(***************************************************************************)
(* Properties.                                                             *)
(***************************************************************************)
\* The method was called and has returned or raised.
Ended(step) == step \in Range(log) \/ raised.step = step

\* The methods initiate_db calls before the commit.
BeforeCommit ==
    {"load_countries", "load_locations", "load_times", "get_user",
     "get_password", "psql_connection", "psql_tables"}
    \cup PopulateSteps
    \cup (IF variant = "A" THEN {"psql_address"} ELSE {})

\* C1: the commit is issued at most once, and only when every step before
\* it has completed without an error, each once; when a step raised, no
\* commit was issued and the exception that leaves initiate_db is the one
\* that was raised.
C1_CommitOnceAfterEveryStep ==
    /\ commits <= 1
    /\ commits = 1 => /\ raised = NoError
                      /\ error = NoError
                      /\ BeforeCommit \subseteq Range(log)
                      /\ Len(log) = Cardinality(Range(log))
                      /\ log[Len(log)] = "commit"
    /\ raised # NoError => commits = 0 /\ error = raised

C1_Committed == Done /\ commits = 1

\* C2: in every terminal state of a run that opened the connection, the
\* connection and the cursor are closed.
C2_ClosedOnEveryExit ==
    (Terminal /\ "psql_connection" \in Range(log))
        => (conn = "closed" /\ cur = "closed")

\* C3: once a load method has ended, by returning or by raising, the
\* decoded file that unzip wrote for it is no longer on disk.
C3_TemporaryFileRemoved ==
    /\ (csv_zipped /\ Ended("load_countries")) => ~fs[CountriesCsv].exists
    /\ (csv_zipped /\ Ended("load_locations")) => ~fs[LocationsCsv].exists

\* C4: with the conditional insert of variant B, a populate method that
\* has run once on freshly created tables changes nothing when it runs
\* again.
C4_SecondRunChangesNothing ==
    [][(variant = "B" /\ runs >= 1) => db' = db]_vars

\* The stored values of a row of the table a populate method writes, and
\* the values the table stores for a candidate.
RowValues(step, row) ==
    [i \in 1..Len(Target(variant, step).fields) |->
        row[Target(variant, step).fields[i]]]
StoredValues(step, x) ==
    [i \in 1..Len(Target(variant, step).fields) |->
        Coerce(TypeOf(db[Target(variant, step).table],
                      Target(variant, step).fields[i]),
               Params(step, x)[i])]
RowsOf(step) == db[Target(variant, step).table].rows

\* C5: after a completed load no lookup table holds two rows with the same
\* value, and the values it holds are those of the source records.
C5_NoDuplicateLookupRows ==
    Done => \A step \in PopulateSteps :
               /\ Cardinality({RowValues(step, RowsOf(step)[k]) :
                                  k \in 1..Len(RowsOf(step))})
                     = Len(RowsOf(step))
               /\ {RowValues(step, RowsOf(step)[k]) :
                      k \in 1..Len(RowsOf(step))}
                     = {StoredValues(step, x) : x \in Range(Attr(step).v)}

\* C6: with the unconditional insert of variant A, a second run of a
\* populate method on the same table raises a uniqueness violation and
\* leaves no two rows with the same value.
C6_SecondRunRejected ==
    \A step \in PopulateSteps :
        (variant = "A" /\ runs >= 2 /\ ~Attr(step).none
            /\ Attr(step).v # <<>>)
        => /\ raised = Exc("IntegrityError", step)
           /\ Cardinality({RowValues(step, RowsOf(step)[k]) :
                              k \in 1..Len(RowsOf(step))})
                 = Len(RowsOf(step))

\* Row i of table address comes from record i of location_data.
AddressRows == db["address"].rows
AddressRan == variant = "A" /\ Ended("psql_address") /\ ~location_data.none

\* The record's field has a lookup row that idx_sub finds.
Resolved(i, f) ==
    \E k \in 1..Len(db[f].rows) :
        StrOfValue(TypeOf(db[f], "value"), db[f].rows[k]["value"])
            = location_data.v[i][f]

\* C7: every foreign key of every address row is the id of a row of its
\* lookup table, and that row stores the value of the record's field.
C7_AddressKeysRoundTrip ==
    AddressRan =>
        \A i \in 1..Len(AddressRows) : \A f \in AddressFields :
            \E k \in 1..Len(db[f].rows) :
                /\ db[f].rows[k]["id"] = AddressRows[i][f]
                /\ db[f].rows[k]["value"]
                      = Coerce(TypeOf(db[f], "value"), location_data.v[i][f])

\* C8: when, among several records, one has a field that no lookup row
\* resolves, psql_address raises ResolutionError and no address row holds
\* an unresolved key.
C8_UnresolvedValueRaises ==
    (/\ AddressRan
     /\ raised.kind # "OperationalError"
     /\ ~ZeroDim(location_data.v)
     /\ \E i \in 1..Len(location_data.v) : \E f \in AddressFields :
           ~Resolved(i, f))
    => /\ raised = Exc("ResolutionError", "psql_address")
       /\ \A i \in 1..Len(AddressRows) : \A f \in AddressFields :
             Resolved(i, f)

\* C9: when every field of each of several records resolves, psql_address
\* raises nothing and leaves one address row for each distinct combination
\* of (city, state, postal_code, latitude, longitude) in the records.
C9_OneAddressPerCombination ==
    (/\ AddressRan
     /\ raised.kind # "OperationalError"
     /\ ~ZeroDim(location_data.v)
     /\ \A i \in 1..Len(location_data.v) : \A f \in AddressFields :
           Resolved(i, f))
    => /\ raised = NoError
       /\ Len(AddressRows)
             = Cardinality({[f \in AddressFields |-> location_data.v[i][f]] :
                               i \in 1..Len(location_data.v)})
       /\ Cardinality(Range(AddressRows)) = Len(AddressRows)

\* C10: when a load method raised, no connection or cursor exists, the data
\* base is as it was before the run, no method that talks to the data base
\* has run, and nothing was committed.
C10_LoadFailureBeforeDatabase ==
    raised.step \in {"load_countries", "load_locations"}
    => /\ conn = "None"
       /\ cur = "None"
       /\ db \in {EmptyDb, Earlier(variant)}
       /\ Range(log) \subseteq {"load_countries"}
       /\ commits = 0
       /\ Failed

C10_MalformedLocations ==
    raised = Exc("ValueError", "load_locations") /\ Failed

\* The phase of the run a method of initiate_db belongs to.
Phase(step) ==
    CASE step \in {"load_countries", "load_locations"} -> 1
      [] step = "load_times" -> 2
      [] step \in {"get_user", "get_password"} -> 3
      [] step = "psql_connection" -> 4
      [] step = "psql_tables" -> 5
      [] step \in PopulateSteps -> 6
      [] step = "psql_address" -> 7
      [] step = "commit" -> 8

\* The populate methods of the lookup tables that table address references.
AddressLookups ==
    {"psql_city", "psql_state", "psql_postal_code", "psql_latitude",
     "psql_longitude"}

C12_TimesOfDay ==
    "load_times" \in Range(log) =>
        /\ ~time.none
        /\ LET t == time.v IN
           /\ Len(t) = 288
           /\ t[1] = 0
           /\ \A i \in 1..(Len(t) - 1) :
                 t[i + 1] = t[i] + 5 /\ t[i] < t[i + 1]
           /\ Cardinality(Range(t)) = Len(t)
           /\ t[Len(t)] = 23 * 60 + 55
           /\ \A i \in 1..Len(t) : t[i] < 24 * 60

C12_TimesLoaded ==
    /\ "load_times" \in Range(log)
    /\ ~time.none
    /\ Len(time.v) = 288
    /\ time.v[288] = 1435

\* The decoded files unzip writes: name for name.gz, when csv_zipped.
Temporary == IF csv_zipped THEN {CountriesCsv, LocationsCsv} ELSE {}

\* C13: no step of a run creates, overwrites or deletes a file other than
\* the temporary decoded one; in particular the file the run reads from
\* (name.gz when csv_zipped, else name) keeps its existence and content.
C13_InputsUntouched ==
    [][\A n \in FileNames \ Temporary : fs'[n] = fs[n]]_vars

\* C14: whichever of the declared tables existed before, with or without
\* rows, a call of psql_tables that the server answers raises nothing and
\* leaves every declared lookup and composite table existing and empty;
\* every composite table is created after every lookup table.
C14_RebuildFromAnySchema ==
    /\ (runs >= 1 /\ raised.kind # "OperationalError")
       => /\ raised = NoError
          /\ \A t \in Declared(variant) :
                db[t].exists /\ db[t].rows = <<>>
    /\ LET stmts == TableStmts(variant) IN
       \A i, j \in 1..Len(stmts) :
          (/\ stmts[i].op = "create"
           /\ stmts[i].table \in Composites(variant)
           /\ stmts[j].op = "create"
           /\ stmts[j].table \in Lookups(variant))
          => j < i

C14_Rebuilt ==
    /\ runs = 1
    /\ log = <<"psql_tables">>
    /\ raised = NoError
    /\ \A t \in Declared(variant) : db[t].exists /\ db[t].rows = <<>>

====
